---- MODULE Spec2Model ----
(***************************************************************************)
(* Model of pkg/graph/graph.go of kubectl-graph: the node registry, the    *)
(* relationship registry, the ingestion loop of NewGraph and the render    *)
(* entry points.                                                           *)
(*                                                                         *)
(* Representation.  An API version string is held as the sequence of its   *)
(* "/"-separated segments ("apps/v1" is <<"apps", "v1">>, "v1" is          *)
(* <<"v1">>, "" is <<>>), so that parsing and formatting are computed.     *)
(* A group-kind string "Kind.group" is held as <<Kind, group>> and "Kind"  *)
(* as <<Kind>>.  A Go map is a TLA+ function; a nil or empty map is the    *)
(* function with the empty domain.                                         *)
(***************************************************************************)
EXTENDS Integers, Sequences, FiniteSets, TLC

VARIABLES
    objs,           \* NewGraph: the batch handed to NewGraph
    pc,             \* NewGraph: position in the loop ("loop", "processed", "done"), or "api"
    i,              \* NewGraph: index of the object the loop is at
    Nodes,          \* Graph.Nodes: cluster -> namespace -> UID -> Node
    Relationships,  \* Graph.Relationships: UID -> list of Relationship
    errs,           \* NewGraph: the errs slice
    events,         \* observable order of ingestions and processed() calls
    out,            \* result of the last String/Write call
    last,           \* the last direct call of Node/Relationship and what it returned
    calls           \* number of direct calls made

vars == <<objs, pc, i, Nodes, Relationships, errs, events, out, last, calls>>

-----------------------------------------------------------------------------
(* Bounds *)

MaxBatch == 2

MaxCalls == 3

-----------------------------------------------------------------------------
(* Values *)

EmptyMap == [x \in {} |-> x]

\* The nil error.
Nil == [failed |-> "nil"]

Hostname == "kubernetes.default"

NoLabels == EmptyMap

LabelsA == [k \in {"a"} |-> "1"]

LabelsB == [k \in {"b"} |-> "2"]

CoreV1 == <<"v1">>

AppsV1 == <<"apps", "v1">>

NetworkingV1 == <<"networking.k8s.io", "v1">>

RouteV1 == <<"route.openshift.io", "v1">>

ExampleV1 == <<"example.com", "v1">>

RbacV1 == <<"rbac.authorization.k8s.io", "v1">>

UIDs == {"u1", "u2"}

NameOf(uid) == IF uid = "u1" THEN "n1" ELSE "n2"

-----------------------------------------------------------------------------
(* schema.GroupVersionKind helpers, as used by Node and Unstructured *)

\* schema.ParseGroupVersion: "" -> empty, "v" -> version, "g/v" -> group and
\* version, more than one "/" -> error.
ParseGroupVersion(av) ==
    CASE Len(av) = 0 -> [ok |-> TRUE, Group |-> "", Version |-> ""]
      [] Len(av) = 1 -> [ok |-> TRUE, Group |-> "", Version |-> av[1]]
      [] Len(av) = 2 -> [ok |-> TRUE, Group |-> av[1], Version |-> av[2]]
      [] OTHER       -> [ok |-> FALSE, Group |-> "", Version |-> ""]

\* unstructured.Unstructured.GroupVersionKind: the empty GVK on a parse error.
GroupVersionKind(unstr) ==
    LET gv == ParseGroupVersion(unstr.apiVersion)
    IN  IF gv.ok
        THEN [Group |-> gv.Group, Version |-> gv.Version, Kind |-> unstr.kind]
        ELSE [Group |-> "", Version |-> "", Kind |-> ""]

\* schema.FromAPIVersionAndKind: only the kind on a parse error.
FromAPIVersionAndKind(av, kind) ==
    LET gv == ParseGroupVersion(av)
    IN  IF gv.ok
        THEN [Group |-> gv.Group, Version |-> gv.Version, Kind |-> kind]
        ELSE [Group |-> "", Version |-> "", Kind |-> kind]

\* GroupVersionKind.ToAPIVersionAndKind.
ToAPIVersionAndKind(gvk) ==
    IF gvk.Group = "" /\ gvk.Version = "" /\ gvk.Kind = ""
    THEN [apiVersion |-> <<>>, kind |-> ""]
    ELSE [apiVersion |->
             IF gvk.Group # "" THEN <<gvk.Group, gvk.Version>>
             ELSE IF gvk.Version # "" THEN <<gvk.Version>>
             ELSE <<>>,
          kind |-> gvk.Kind]

\* GroupKindString as it would be if the core group were qualified too.
GroupKindString_AlwaysQualified(gvk) == <<gvk.Kind, gvk.Group>>

\* GroupVersionKind.GroupKind().String(): "Kind" for the core group,
\* "Kind.group" otherwise.
GroupKindString(gvk) ==
    IF gvk.Group = "" THEN <<gvk.Kind>> ELSE <<gvk.Kind, gvk.Group>>

-----------------------------------------------------------------------------
(* Inputs *)

OwnerRef(av, kind, uid) ==
    [APIVersion |-> av, Kind |-> kind, Name |-> NameOf(uid), UID |-> uid]

\* An object as NewGraph receives it.  convertible = FALSE stands for content
\* that a kind-specific extractor cannot convert to its typed shape.
Object(av, kind, uid, ns, labels, owners, convertible) ==
    [clusterName |-> "", apiVersion |-> av, kind |-> kind, name |-> NameOf(uid),
     namespace |-> ns, uid |-> uid, labels |-> labels, ownerReferences |-> owners,
     convertible |-> convertible]

\* ObjectMeta as it would be if the ancestor of an owner reference carried an
\* owner reference of its own.
ObjectMeta_CarriesOwner(uid, name, ns) ==
    [clusterName |-> "", name |-> name, namespace |-> ns, uid |-> uid,
     labels |-> NoLabels,
     ownerReferences |-> IF uid = "u1" THEN <<OwnerRef(AppsV1, "Deployment", "u2")>> ELSE <<>>]

\* metav1.ObjectMeta built for an owner reference (Node, lines 221-225).
ObjectMeta(uid, name, ns) ==
    [clusterName |-> "", name |-> name, namespace |-> ns, uid |-> uid,
     labels |-> NoLabels, ownerReferences |-> <<>>]

-----------------------------------------------------------------------------
(* Registries *)

\* m[k] = v on a Go map.
Put(m, k, v) == [x \in DOMAIN m \cup {k} |-> IF x = k THEN v ELSE m[x]]

\* Lines 191-196: create the missing cluster and namespace levels.
EnsureLevels(nodes, c, ns) ==
    LET n1 == IF c \in DOMAIN nodes THEN nodes ELSE Put(nodes, c, EmptyMap)
    IN  IF ns \in DOMAIN n1[c] THEN n1 ELSE Put(n1, c, Put(n1[c], ns, EmptyMap))

\* Relationship as it would be if a repeated pair took the label of the latest call.
Relationship_OverwritesLabel(g, from, label, to) ==
    LET rs == IF from.UID \in DOMAIN g.Relationships
              THEN g.Relationships[from.UID] ELSE <<>>
        hits == {k \in 1..Len(rs) : rs[k].To.UID = to.UID}
        relationship ==
            [From |-> [UID |-> from.UID, Kind |-> from.Kind], Type |-> label,
             To   |-> [UID |-> to.UID, Kind |-> to.Kind], Attr |-> EmptyMap]
    IN  IF hits # {}
        THEN LET k == CHOOSE k \in hits : \A m \in hits : k <= m
                 r == [rs[k] EXCEPT !.Type = label]
             IN  [g |-> [g EXCEPT !.Relationships[from.UID][k] = r],
                  r |-> r, at |-> k, created |-> FALSE]
        ELSE [g |-> [g EXCEPT !.Relationships =
                        Put(g.Relationships, from.UID, Append(rs, relationship))],
              r |-> relationship, at |-> Len(rs) + 1, created |-> TRUE]

\* Relationship as it would be without the lookup of an existing edge.
Relationship_AlwaysAppends(g, from, label, to) ==
    LET rs == IF from.UID \in DOMAIN g.Relationships
              THEN g.Relationships[from.UID] ELSE <<>>
        relationship ==
            [From |-> [UID |-> from.UID, Kind |-> from.Kind], Type |-> label,
             To   |-> [UID |-> to.UID, Kind |-> to.Kind], Attr |-> EmptyMap]
    IN  [g |-> [g EXCEPT !.Relationships =
                   Put(g.Relationships, from.UID, Append(rs, relationship))],
         r |-> relationship, at |-> Len(rs) + 1, created |-> TRUE]

\* Relationship as it would be if the lookup compared r.From.UID with from.UID.
Relationship_MatchesFrom(g, from, label, to) ==
    LET rs == IF from.UID \in DOMAIN g.Relationships
              THEN g.Relationships[from.UID] ELSE <<>>
        relationship ==
            [From |-> [UID |-> from.UID, Kind |-> from.Kind], Type |-> label,
             To   |-> [UID |-> to.UID, Kind |-> to.Kind], Attr |-> EmptyMap]
    IN  IF Len(rs) > 0
        THEN [g |-> g, r |-> rs[1], at |-> 1, created |-> FALSE]
        ELSE [g |-> [g EXCEPT !.Relationships =
                        Put(g.Relationships, from.UID, Append(rs, relationship))],
              r |-> relationship, at |-> Len(rs) + 1, created |-> TRUE]

\* Relationship as it would be if a new edge were put at the head of the list.
Relationship_Prepends(g, from, label, to) ==
    LET rs == IF from.UID \in DOMAIN g.Relationships
              THEN g.Relationships[from.UID] ELSE <<>>
        hits == {k \in 1..Len(rs) : rs[k].To.UID = to.UID}
        relationship ==
            [From |-> [UID |-> from.UID, Kind |-> from.Kind], Type |-> label,
             To   |-> [UID |-> to.UID, Kind |-> to.Kind], Attr |-> EmptyMap]
    IN  IF hits # {}
        THEN LET k == CHOOSE k \in hits : \A m \in hits : k <= m
             IN  [g |-> g, r |-> rs[k], at |-> k, created |-> FALSE]
        ELSE [g |-> [g EXCEPT !.Relationships =
                        Put(g.Relationships, from.UID, <<relationship>> \o rs)],
              r |-> relationship, at |-> 1, created |-> TRUE]

\* Relationship as it would be if an edge from to to from also counted as the
\* existing edge of the pair.
Relationship_MatchesEitherEnd(g, from, label, to) ==
    LET rs == IF from.UID \in DOMAIN g.Relationships
              THEN g.Relationships[from.UID] ELSE <<>>
        back == IF to.UID \in DOMAIN g.Relationships
                THEN g.Relationships[to.UID] ELSE <<>>
        hits == {k \in 1..Len(rs) : rs[k].To.UID = to.UID}
        backHits == {k \in 1..Len(back) : back[k].To.UID = from.UID}
        relationship ==
            [From |-> [UID |-> from.UID, Kind |-> from.Kind], Type |-> label,
             To   |-> [UID |-> to.UID, Kind |-> to.Kind], Attr |-> EmptyMap]
    IN  IF hits # {}
        THEN LET k == CHOOSE k \in hits : \A m \in hits : k <= m
             IN  [g |-> g, r |-> rs[k], at |-> k, created |-> FALSE]
        ELSE IF backHits # {}
        THEN LET k == CHOOSE k \in backHits : \A m \in backHits : k <= m
             IN  [g |-> g, r |-> back[k], at |-> k, created |-> FALSE]
        ELSE [g |-> [g EXCEPT !.Relationships =
                        Put(g.Relationships, from.UID, Append(rs, relationship))],
              r |-> relationship, at |-> Len(rs) + 1, created |-> TRUE]

\* Graph.Relationship: the existing edge of from's list with the same To.UID,
\* else a new edge appended to from's list.
Relationship(g, from, label, to) ==
    LET rs == IF from.UID \in DOMAIN g.Relationships
              THEN g.Relationships[from.UID] ELSE <<>>
        hits == {k \in 1..Len(rs) : rs[k].To.UID = to.UID}
    IN  IF hits # {}
        THEN LET k == CHOOSE k \in hits : \A m \in hits : k <= m
             IN  [g |-> g, r |-> rs[k], at |-> k, created |-> FALSE]
        ELSE LET relationship ==
                     [From |-> [UID |-> from.UID, Kind |-> from.Kind],
                      Type |-> label,
                      To   |-> [UID |-> to.UID, Kind |-> to.Kind],
                      Attr |-> EmptyMap]
             IN  [g |-> [g EXCEPT !.Relationships =
                            Put(g.Relationships, from.UID, Append(rs, relationship))],
                  r |-> relationship, at |-> Len(rs) + 1, created |-> TRUE]

RECURSIVE Node(_, _, _)
RECURSIVE OwnerRefs(_, _, _, _, _)

\* OwnerRefs as it would be if the edge were labelled with the owner's kind.
OwnerRefs_LabelsWithOwnerKind(g, refs, k, kind, node) ==
    IF k > Len(refs) THEN g
    ELSE LET ownerRef == refs[k]
             owner == Node(g,
                           FromAPIVersionAndKind(ownerRef.APIVersion, ownerRef.Kind),
                           ObjectMeta(ownerRef.UID, ownerRef.Name, node.Namespace))
             rel == Relationship(owner.g, owner.node, owner.node.Kind, node)
         IN  OwnerRefs(rel.g, refs, k + 1, kind, node)

\* OwnerRefs as it would be if the edge pointed from the child to the owner.
OwnerRefs_PointsToOwner(g, refs, k, kind, node) ==
    IF k > Len(refs) THEN g
    ELSE LET ownerRef == refs[k]
             owner == Node(g,
                           FromAPIVersionAndKind(ownerRef.APIVersion, ownerRef.Kind),
                           ObjectMeta(ownerRef.UID, ownerRef.Name, node.Namespace))
             rel == Relationship(owner.g, node, kind, owner.node)
         IN  OwnerRefs(rel.g, refs, k + 1, kind, node)

\* Lines 218-228: for each owner reference, Node() of the owner built from the
\* reference and the child's namespace, then Relationship(owner, kind, node).
OwnerRefs(g, refs, k, kind, node) ==
    IF k > Len(refs) THEN g
    ELSE LET ownerRef == refs[k]
             owner == Node(g,
                           FromAPIVersionAndKind(ownerRef.APIVersion, ownerRef.Kind),
                           ObjectMeta(ownerRef.UID, ownerRef.Name, node.Namespace))
             rel == Relationship(owner.g, owner.node, kind, node)
         IN  OwnerRefs(rel.g, refs, k + 1, kind, node)

\* ResolveLabels as it would be without the lookup of the stored labels.
ResolveLabels_CandidateWins(levels, c, ns, obj) == obj.labels

\* ResolveLabels as it would be if the stored labels were merged into the
\* candidate's labels, the candidate's value winning for a shared key.
ResolveLabels_Merges(levels, c, ns, obj) ==
    IF obj.uid \in DOMAIN levels[c][ns]
    THEN LET old == levels[c][ns][obj.uid].Labels
         IN  [key \in DOMAIN old \cup DOMAIN obj.labels |->
                 IF key \in DOMAIN obj.labels THEN obj.labels[key] ELSE old[key]]
    ELSE obj.labels

\* Lines 197-201: the labels the candidate carries after the lookup; a stored
\* node with labels forces its labels onto the object.
ResolveLabels(levels, c, ns, obj) ==
    IF /\ obj.uid \in DOMAIN levels[c][ns]
       /\ DOMAIN levels[c][ns][obj.uid].Labels # {}
    THEN levels[c][ns][obj.uid].Labels
    ELSE obj.labels

\* Store as it would be if a node already present under the key were kept.
Store_IfAbsent(levels, c, ns, uid, node) ==
    IF uid \in DOMAIN levels[c][ns] THEN levels
    ELSE Put(levels, c, Put(levels[c], ns, Put(levels[c][ns], uid, node)))

\* Line 216: g.Nodes[cluster][namespace][uid] = node
Store(levels, c, ns, uid, node) ==
    Put(levels, c, Put(levels[c], ns, Put(levels[c][ns], uid, node)))

\* IsNamespace as it would be if Deployments were left out of the registry
\* as well.
IsNamespace_OrDeployment(gvk) ==
    GroupKindString(gvk) \in {<<"Namespace">>, <<"Deployment", "apps">>}

\* Line 212: kinds that are returned without being stored.
IsNamespace(gvk) == GroupKindString(gvk) = <<"Namespace">>

\* Graph.Node.
Node(g, gvk, obj) ==
    LET c  == IF obj.clusterName = "" THEN Hostname ELSE obj.clusterName
        ns == obj.namespace
        levels == EnsureLevels(g.Nodes, c, ns)
        ak == ToAPIVersionAndKind(gvk)
        node == [APIVersion |-> ak.apiVersion, Kind |-> ak.kind,
                 Labels |-> ResolveLabels(levels, c, ns, obj),
                 Name |-> obj.name, Namespace |-> ns, UID |-> obj.uid]
    IN  IF IsNamespace(gvk)
        THEN [g |-> [g EXCEPT !.Nodes = levels], node |-> node]
        ELSE LET stored == Store(levels, c, ns, obj.uid, node)
             IN  [g |-> OwnerRefs([g EXCEPT !.Nodes = stored],
                                  obj.ownerReferences, 1, ak.kind, node),
                  node |-> node]

-----------------------------------------------------------------------------
(* NewGraph and Unstructured *)

\* The kind-specific extractors (CoreV1Graph, NetworkingV1Graph, RouteV1Graph)
\* at their calling contract: Unstructured(obj) returns an error when the
\* object cannot be converted to its typed shape, nil otherwise.
ExtractorUnstructured(unstr) ==
    IF unstr.convertible THEN Nil
    ELSE [failed |-> "convert", uid |-> unstr.uid, kind |-> unstr.kind]

\* Unstructured as it would be if the extractor ran first and its error
\* returned before the generic node is registered.
Unstructured_ExtractorFirst(g, unstr) ==
    LET err == IF unstr.apiVersion \in {CoreV1, NetworkingV1, RouteV1}
               THEN ExtractorUnstructured(unstr) ELSE Nil
    IN  IF err # Nil THEN [g |-> g, err |-> err]
        ELSE [g |-> Node(g, GroupVersionKind(unstr), unstr).g, err |-> Nil]

\* Unstructured as it would be if every API version reached an extractor.
Unstructured_ExtractsEveryVersion(g, unstr) ==
    [g |-> Node(g, GroupVersionKind(unstr), unstr).g, err |-> ExtractorUnstructured(unstr)]

\* Graph.Unstructured: the generic node first, then at most one extractor
\* selected by the API version.
Unstructured(g, unstr) ==
    LET n == Node(g, GroupVersionKind(unstr), unstr)
    IN  [g   |-> n.g,
         err |-> CASE unstr.apiVersion = CoreV1       -> ExtractorUnstructured(unstr)
                   [] unstr.apiVersion = NetworkingV1 -> ExtractorUnstructured(unstr)
                   [] unstr.apiVersion = RouteV1      -> ExtractorUnstructured(unstr)
                   [] OTHER                           -> Nil]

\* errors.NewAggregate: nil for an empty list, else the list of errors.
NewAggregate(errlist) ==
    IF Len(errlist) = 0 THEN Nil ELSE [failed |-> "aggregate", errors |-> errlist]

RefD(uid) == OwnerRef(AppsV1, "Deployment", uid)

RefRS(uid) == OwnerRef(AppsV1, "ReplicaSet", uid)

RefNs(uid) == OwnerRef(CoreV1, "Namespace", uid)

RefNsEx(uid) == OwnerRef(ExampleV1, "Namespace", uid)

RefCR(uid) == OwnerRef(RbacV1, "ClusterRole", uid)

\* The objects a batch is drawn from: workloads with and without labels and
\* owner references (one, two, self, mutual), core and non-core Namespace
\* kinds, cluster-scoped objects, objects of the three extractor API versions
\* and of API versions without an extractor, convertible and not.
Objects ==
    {Object(AppsV1, k, u, "ns1", l, <<>>, TRUE) :
        k \in {"Deployment", "ReplicaSet"}, u \in UIDs, l \in {NoLabels, LabelsA}}
    \cup {Object(AppsV1, "ReplicaSet", u, "ns1", NoLabels, ow, TRUE) :
        u \in UIDs, ow \in {<<RefD("u1")>>, <<RefD("u2")>>, <<RefD("u1"), RefD("u2")>>}}
    \cup {Object(AppsV1, "ReplicaSet", "u2", "ns1", NoLabels, ow, TRUE) :
        ow \in {<<RefNs("u1")>>, <<RefNsEx("u1")>>}}
    \cup {Object(CoreV1, "Pod", "u2", "ns1", NoLabels, ow, cv) :
        ow \in {<<>>, <<RefRS("u1")>>}, cv \in BOOLEAN}
    \cup {Object(CoreV1, "Namespace", u, "", l, <<>>, TRUE) :
        u \in UIDs, l \in {NoLabels, LabelsA}}
    \cup {Object(ExampleV1, "Namespace", "u1", "", NoLabels, <<>>, TRUE),
          Object(CoreV1, "Namespace", "u2", "", NoLabels, <<RefD("u1")>>, FALSE),
          Object(AppsV1, "Deployment", "u1", "ns1", LabelsB, <<>>, TRUE),
          Object(AppsV1, "ReplicaSet", "u2", "ns1", NoLabels, <<RefD("u1")>>, FALSE),
          Object(AppsV1, "ReplicaSet", "u2", "ns1", NoLabels, <<RefCR("u1")>>, TRUE)}
    \cup {Object(RbacV1, "ClusterRole", "u1", "", l, <<>>, TRUE) : l \in {NoLabels, LabelsA}}
    \cup {Object(av, "Ingress", "u1", "ns1", NoLabels, <<>>, cv) :
        av \in {NetworkingV1, RouteV1}, cv \in BOOLEAN}

Batches == UNION {[1..n -> Objects] : n \in 0..MaxBatch}

G == [Nodes |-> Nodes, Relationships |-> Relationships]

NoOut == [op |-> "none"]

NoCall == [op |-> "none"]

\* State on entry to the loop of NewGraph (lines 147-157).
Init ==
    /\ objs \in Batches
    /\ pc = "loop"
    /\ i = 1
    /\ Nodes = EmptyMap
    /\ Relationships = EmptyMap
    /\ errs = <<>>
    /\ events = <<>>
    /\ out = NoOut
    /\ last = NoCall
    /\ calls = 0

\* The loop body as it would be if a failed object skipped the rest of the
\* iteration (a continue after the append).
Ingest_ContinuesOnError ==
    /\ pc = "loop"
    /\ i <= Len(objs)
    /\ LET r == Unstructured(G, objs[i])
       IN  /\ Nodes' = r.g.Nodes
           /\ Relationships' = r.g.Relationships
           /\ errs' = IF r.err # Nil THEN Append(errs, r.err) ELSE errs
           /\ pc' = IF r.err # Nil THEN "loop" ELSE "processed"
           /\ i' = IF r.err # Nil THEN i + 1 ELSE i
    /\ events' = Append(events, [ev |-> "Unstructured", obj |-> i])
    /\ UNCHANGED <<objs, out, last, calls>>

\* Loop body, lines 160-163: Unstructured(obj) and the collection of its error.
Ingest ==
    /\ pc = "loop"
    /\ i <= Len(objs)
    /\ LET r == Unstructured(G, objs[i])
       IN  /\ Nodes' = r.g.Nodes
           /\ Relationships' = r.g.Relationships
           /\ errs' = IF r.err # Nil THEN Append(errs, r.err) ELSE errs
    /\ events' = Append(events, [ev |-> "Unstructured", obj |-> i])
    /\ pc' = "processed"
    /\ UNCHANGED <<objs, i, out, last, calls>>

\* Loop body, line 164: the progress callback.
Processed ==
    /\ pc = "processed"
    /\ events' = Append(events, [ev |-> "processed", obj |-> i])
    /\ i' = i + 1
    /\ pc' = "loop"
    /\ UNCHANGED <<objs, Nodes, Relationships, errs, out, last, calls>>

\* Line 167: the loop is over, NewGraph returns g and NewAggregate(errs).
Return ==
    /\ pc = "loop"
    /\ i > Len(objs)
    /\ pc' = "done"
    /\ UNCHANGED <<objs, i, Nodes, Relationships, errs, events, out, last, calls>>

ReturnedError == NewAggregate(errs)

-----------------------------------------------------------------------------
(* Rendering *)

\* The template names registered by init().
Templates == {"cypher", "graphviz"}

Formats == {"cypher", "graphviz", "json", "output"}

\* templates.ExecuteTemplate(w, format, g): an error and nothing written when
\* no template of that name is registered, else the template's text of g.
ExecuteTemplate(format, g) ==
    IF format \in Templates
    THEN [err |-> Nil, written |-> <<format, g.Nodes, g.Relationships>>]
    ELSE [err |-> [failed |-> "no template", name |-> format], written |-> <<>>]

\* Graph.Write: the error of ExecuteTemplate.
Write(g, format) == ExecuteTemplate(format, g)

\* Graph.String: the buffer Write filled; Write's error is dropped.
String(g, format) == Write(g, format).written

WriteCall(format) ==
    /\ pc = "done"
    /\ LET r == Write(G, format)
       IN  out' = [op |-> "Write", format |-> format, err |-> r.err, text |-> r.written]
    /\ UNCHANGED <<objs, pc, i, Nodes, Relationships, errs, events, last, calls>>

StringCall(format) ==
    /\ pc = "done"
    /\ out' = [op |-> "String", format |-> format, text |-> String(G, format)]
    /\ UNCHANGED <<objs, pc, i, Nodes, Relationships, errs, events, last, calls>>

Next ==
    \/ Ingest
    \/ Processed
    \/ Return
    \/ \E format \in Formats : WriteCall(format)
    \/ \E format \in Formats : StringCall(format)

Spec == Init /\ [][Next]_vars

-----------------------------------------------------------------------------
(* Direct use of the exported registration primitives, as by an extractor *)

\* A *Node argument of Relationship; only UID and Kind are read from it.
NodeValue(kind, uid) ==
    [APIVersion |-> AppsV1, Kind |-> kind, Labels |-> NoLabels, Name |-> NameOf(uid),
     Namespace |-> "ns1", UID |-> uid]

APINodes ==
    {NodeValue("Deployment", "u1"), NodeValue("ReplicaSet", "u2"), NodeValue("Namespace", "u2")}

APILabels == {"L1", "L2"}

WithCluster(obj, c) == [obj EXCEPT !.clusterName = c]

\* metav1.Object arguments of Node, among them objects that carry a cluster name.
APIObjects ==
    {WithCluster(Object(AppsV1, "Deployment", "u1", "ns1", l, <<>>, TRUE), c) :
        l \in {NoLabels, LabelsA}, c \in {"", "other"}}
    \cup {Object(AppsV1, "ReplicaSet", "u2", "ns1", NoLabels, <<RefD("u1")>>, TRUE),
          Object(CoreV1, "Namespace", "u1", "ns1", LabelsA, <<>>, TRUE)}

InitAPI ==
    /\ objs = <<>>
    /\ pc = "api"
    /\ i = 1
    /\ Nodes = EmptyMap
    /\ Relationships = EmptyMap
    /\ errs = <<>>
    /\ events = <<>>
    /\ out = NoOut
    /\ last = NoCall
    /\ calls = 0

\* g.Node(gvk, obj)
NodeCall(gvk, obj) ==
    /\ pc = "api"
    /\ calls < MaxCalls
    /\ LET r == Node(G, gvk, obj)
       IN  /\ Nodes' = r.g.Nodes
           /\ Relationships' = r.g.Relationships
           /\ last' = [op |-> "Node", gvk |-> gvk, obj |-> obj, ret |-> r.node]
    /\ calls' = calls + 1
    /\ UNCHANGED <<objs, pc, i, errs, events, out>>

\* g.Relationship(from, label, to)
RelationshipCall(from, label, to) ==
    /\ pc = "api"
    /\ calls < MaxCalls
    /\ LET r == Relationship(G, from, label, to)
       IN  /\ Nodes' = r.g.Nodes
           /\ Relationships' = r.g.Relationships
           /\ last' = [op |-> "Relationship", from |-> from, label |-> label, to |-> to,
                       ret |-> r.r, at |-> r.at, created |-> r.created]
    /\ calls' = calls + 1
    /\ UNCHANGED <<objs, pc, i, errs, events, out>>

\* Relationship.Attribute on the edge at position k of uid's list: r.Attr[key] = value.
Attribute(rels, uid, k, key, value) ==
    [rels EXCEPT ![uid][k].Attr = Put(@, key, value)]

\* r.Attribute(key, value) on a relationship obtained from the registry
AttributeCall(uid, k, key, value) ==
    /\ pc = "api"
    /\ calls < MaxCalls
    /\ uid \in DOMAIN Relationships
    /\ k \in 1..Len(Relationships[uid])
    /\ Relationships' = Attribute(Relationships, uid, k, key, value)
    /\ last' = [op |-> "Attribute", uid |-> uid, at |-> k, key |-> key, value |-> value]
    /\ calls' = calls + 1
    /\ UNCHANGED <<objs, pc, i, Nodes, errs, events, out>>

NextAPI ==
    \/ \E obj \in APIObjects : NodeCall(GroupVersionKind(obj), obj)
    \/ \E from \in APINodes, label \in APILabels, to \in APINodes :
           RelationshipCall(from, label, to)
    \/ \E uid \in UIDs, k \in 1..2, value \in {"red", "blue"} :
           AttributeCall(uid, k, "color", value)

SpecAPI == InitAPI /\ [][NextAPI]_vars

-----------------------------------------------------------------------------
(* Views of the registries used by the properties *)

\* The identity keys present in a node registry.
Keys(nodes) ==
    UNION {UNION {{<<c, ns, u>> : u \in DOMAIN nodes[c][ns]} : ns \in DOMAIN nodes[c]} :
           c \in DOMAIN nodes}

NodeAt(nodes, key) == nodes[key[1]][key[2]][key[3]]

StoredNodes(nodes) == {NodeAt(nodes, key) : key \in Keys(nodes)}

\* The positions of a relationship registry, and its edges.
Positions(rels) == UNION {{<<u, k>> : k \in 1..Len(rels[u])} : u \in DOMAIN rels}

EdgeAt(rels, pos) == rels[pos[1]][pos[2]]

\* The positions holding an edge from identifier f to identifier t.
PairPositions(rels, f, t) ==
    {pos \in Positions(rels) : EdgeAt(rels, pos).From.UID = f /\ EdgeAt(rels, pos).To.UID = t}

\* The identity key Node() uses for an object.
KeyOf(obj) ==
    <<IF obj.clusterName = "" THEN Hostname ELSE obj.clusterName, obj.namespace, obj.uid>>

\* The key Node() uses for the ancestor built from an owner reference of obj.
OwnerKey(obj, ownerRef) == <<Hostname, obj.namespace, ownerRef.UID>>

\* The object is one that Node() returns without storing.
Excluded(obj) == IsNamespace(GroupVersionKind(obj))

RefExcluded(ownerRef) ==
    IsNamespace(FromAPIVersionAndKind(ownerRef.APIVersion, ownerRef.Kind))

Range(seq) == {seq[k] : k \in 1..Len(seq)}

\* A step of the loop that ingests objs[i].
IngestStep == pc = "loop" /\ pc' = "processed"

\* The number of objects of the batch whose ingestion is over.
Ingested == IF pc = "loop" THEN i - 1 ELSE IF pc = "processed" THEN i ELSE Len(objs)

-----------------------------------------------------------------------------
(* C1 *)

PairUnique ==
    /\ \A pos \in Positions(Relationships) : EdgeAt(Relationships, pos).From.UID = pos[1]
    /\ \A p1, p2 \in Positions(Relationships) :
           (/\ EdgeAt(Relationships, p1).From.UID = EdgeAt(Relationships, p2).From.UID
            /\ EdgeAt(Relationships, p1).To.UID = EdgeAt(Relationships, p2).To.UID)
           => p1 = p2

\* A Relationship call whose pair is already registered adds nothing and
\* returns the registered edge.
RepeatedPairStep ==
    (/\ last'.op = "Relationship"
     /\ calls' = calls + 1
     /\ PairPositions(Relationships, last'.from.UID, last'.to.UID) # {})
    => /\ Relationships' = Relationships
       /\ ~last'.created
       /\ \E pos \in PairPositions(Relationships, last'.from.UID, last'.to.UID) :
              last'.ret = EdgeAt(Relationships, pos)

\* A registered edge keeps its place, its ends and its label.
EdgesKeepLabel ==
    \A pos \in Positions(Relationships) :
        /\ pos \in Positions(Relationships')
        /\ EdgeAt(Relationships', pos).Type = EdgeAt(Relationships, pos).Type
        /\ EdgeAt(Relationships', pos).From = EdgeAt(Relationships, pos).From
        /\ EdgeAt(Relationships', pos).To = EdgeAt(Relationships, pos).To

\* C1: after any sequence of Relationship calls the registry holds at most one
\* edge per (from-identifier, to-identifier) pair; a call with a registered
\* pair and a different label adds nothing and returns the registered edge,
\* which keeps the label of its first insertion.
C1_EdgeDedup == []PairUnique /\ [][RepeatedPairStep /\ EdgesKeepLabel]_vars

\* A second call with a registered pair and another label has just returned
\* the edge with the first label.
C1_Witness ==
    /\ last.op = "Relationship"
    /\ ~last.created
    /\ last.label # last.ret.Type
    /\ Cardinality(PairPositions(Relationships, last.from.UID, last.to.UID)) = 1

-----------------------------------------------------------------------------
(* C2 *)

\* C2 as claimed: no stored node has the kind "Namespace".
C2_NoNamespaceKind == \A n \in StoredNodes(Nodes) : n.Kind # "Namespace"

\* C2: in every reachable state the node registry holds no node of the kind
\* "Namespace" of the core API group (group-kind string "Namespace"), whether
\* such an object was ingested directly or reached through an owner
\* reference; the node returned for an owner of that kind is still the source
\* of the ownership edge.  A kind "Namespace" of another group is stored.
C2_NamespaceExclusion ==
    /\ \A n \in StoredNodes(Nodes) :
           ~(n.Kind = "Namespace" /\ ParseGroupVersion(n.APIVersion).Group = "")
    /\ \A j \in 1..Ingested : \A ownerRef \in Range(objs[j].ownerReferences) :
           (~Excluded(objs[j]) /\ RefExcluded(ownerRef))
           => PairPositions(Relationships, ownerRef.UID, objs[j].uid) # {}

\* A core Namespace was ingested directly, another was reached through an
\* owner reference, and the registry holds nodes, none of them that Namespace.
C2_Witness ==
    /\ pc = "done"
    /\ \E j \in 1..Len(objs) : Excluded(objs[j])
    /\ \E j \in 1..Len(objs) : \E ownerRef \in Range(objs[j].ownerReferences) :
           ~Excluded(objs[j]) /\ RefExcluded(ownerRef)
    /\ Keys(Nodes) # {}

-----------------------------------------------------------------------------
(* C3 *)

\* The keys under which the ingestion of obj inserts a candidate that supplies
\* no labels: its own key when it has none, and the key of each of its owners.
EmptyLabelInsertions(obj) ==
    (IF DOMAIN obj.labels = {} THEN {KeyOf(obj)} ELSE {})
    \cup (IF Excluded(obj) THEN {}
          ELSE {OwnerKey(obj, ownerRef) : ownerRef \in Range(obj.ownerReferences)})

\* C3: when a node is stored under a key with a non-empty label set, an
\* insertion under that key that supplies an empty label set leaves the
\* stored node's labels equal to the earlier non-empty set.
C3_LabelMonotonicity ==
    [][IngestStep =>
         \A key \in EmptyLabelInsertions(objs[i]) \cap Keys(Nodes) :
             DOMAIN NodeAt(Nodes, key).Labels # {}
             => /\ key \in Keys(Nodes')
                /\ NodeAt(Nodes', key).Labels = NodeAt(Nodes, key).Labels]_vars

\* An object without labels has just been ingested under the key of an
\* earlier object with labels, and the stored node carries the earlier labels.
C3_Witness ==
    /\ pc = "processed"
    /\ DOMAIN objs[i].labels = {}
    /\ ~Excluded(objs[i])
    /\ \E j \in 1..(i - 1) :
           /\ KeyOf(objs[j]) = KeyOf(objs[i])
           /\ ~Excluded(objs[j])
           /\ DOMAIN objs[j].labels # {}
           /\ NodeAt(Nodes, KeyOf(objs[i])).Labels = objs[j].labels

-----------------------------------------------------------------------------
(* C4 *)

EmptyGraph == [Nodes |-> EmptyMap, Relationships |-> EmptyMap]

RECURSIVE IngestFrom(_, _, _)
\* The graph after the loop of NewGraph has ingested seq[k..] into g.
IngestFrom(g, seq, k) ==
    IF k > Len(seq) THEN g ELSE IngestFrom(Unstructured(g, seq[k]).g, seq, k + 1)

\* The edges of a relationship registry as a set of
\* (from-identifier, from-kind, label, to-identifier, to-kind).
EdgeSet(rels) ==
    {<<EdgeAt(rels, pos).From.UID, EdgeAt(rels, pos).From.Kind, EdgeAt(rels, pos).Type,
       EdgeAt(rels, pos).To.UID, EdgeAt(rels, pos).To.Kind>> : pos \in Positions(rels)}

\* seq with its first two elements exchanged.
SwapFirstTwo(seq) ==
    [k \in 1..Len(seq) |-> IF k = 1 THEN seq[2] ELSE IF k = 2 THEN seq[1] ELSE seq[k]]

\* child carries an owner reference to parent, another resource.
ChildOf(child, parent) ==
    /\ child.uid # parent.uid
    /\ \E ownerRef \in Range(child.ownerReferences) : ownerRef.UID = parent.uid

\* C4: for a child C with an owner reference to P, ingesting C and then P
\* gives the same final set of edges (from-identifier, from-kind, label,
\* to-identifier, to-kind) as ingesting P and then C.
C4_OrderIndependence ==
    (pc = "done" /\ Len(objs) >= 2 /\ ChildOf(objs[1], objs[2]))
    => EdgeSet(Relationships)
         = EdgeSet(IngestFrom(EmptyGraph, SwapFirstTwo(objs), 1).Relationships)

\* A child was ingested before its owner, which has an owner of its own, and
\* both ownership edges are registered.
C4_Witness ==
    /\ pc = "done"
    /\ Len(objs) = 2
    /\ ChildOf(objs[1], objs[2])
    /\ objs[2].ownerReferences # <<>>
    /\ ~Excluded(objs[1])
    /\ Cardinality(EdgeSet(Relationships)) >= 2

-----------------------------------------------------------------------------
(* C5 *)

\* C5: ingesting the same object, not an excluded Namespace, a second time
\* leaves one entry under its identity key and leaves the node registry and
\* the relationship registry as they were after the first ingestion.
C5_NodeIdempotence ==
    [][(IngestStep /\ i > 1 /\ objs[i] = objs[i - 1] /\ ~Excluded(objs[i]))
         => /\ KeyOf(objs[i]) \in Keys(Nodes)
            /\ Nodes' = Nodes
            /\ Relationships' = Relationships]_vars

\* The same object with labels and an owner reference has been ingested twice.
C5_Witness ==
    /\ pc = "processed"
    /\ i = 2
    /\ objs[2] = objs[1]
    /\ ~Excluded(objs[2])
    /\ objs[2].ownerReferences # <<>>
    /\ KeyOf(objs[2]) \in Keys(Nodes)
    /\ Cardinality(Positions(Relationships)) >= 1

-----------------------------------------------------------------------------
(* C6 *)

\* The API versions that select an extractor (lines 175-180).
ExtractorVersions == {CoreV1, NetworkingV1, RouteV1}

\* The object fails extractor processing.
FailsExtractor(obj) ==
    obj.apiVersion \in ExtractorVersions /\ ExtractorUnstructured(obj) # Nil

Failing == {j \in 1..Len(objs) : FailsExtractor(objs[j])}

\* The generic node of obj and its ownership edges are registered.
GenericRegistered(nodes, rels, obj) ==
    ~Excluded(obj)
    => /\ KeyOf(obj) \in Keys(nodes)
       /\ \A ownerRef \in Range(obj.ownerReferences) :
              PairPositions(rels, ownerRef.UID, obj.uid) # {}

\* C6: NewGraph over N objects of which K fail extractor processing returns
\* the graph with an aggregate error of exactly K entries, and no error when
\* K = 0; every object of the batch was ingested, failing or not, so each has
\* its generic node and its ownership edges registered.
C6_PartialFailure ==
    pc = "done"
    => /\ (Failing = {}) <=> (ReturnedError = Nil)
       /\ Failing # {} => Len(ReturnedError.errors) = Cardinality(Failing)
       /\ \A j \in Failing : ExtractorUnstructured(objs[j]) \in Range(errs)
       /\ Cardinality({k \in 1..Len(events) : events[k].ev = "Unstructured"}) = Len(objs)
       /\ \A j \in 1..Len(objs) : GenericRegistered(Nodes, Relationships, objs[j])

\* The first of two objects failed its extractor; the second, ingested after
\* it, has its node and its ownership edge, and one error is returned.
C6_Witness ==
    /\ pc = "done"
    /\ Len(objs) = 2
    /\ Failing = {1}
    /\ ~Excluded(objs[1])
    /\ ~Excluded(objs[2])
    /\ objs[1].uid # objs[2].uid
    /\ objs[2].ownerReferences # <<>>
    /\ Len(ReturnedError.errors) = 1
    /\ KeyOf(objs[1]) \in Keys(Nodes)

-----------------------------------------------------------------------------
(* C7 *)

\* The first object of the batch, not excluded, with identifier uid and an
\* owner reference to identifier owner.
FirstWith(owner, uid) ==
    LET js == {j \in 1..Len(objs) :
                 /\ ~Excluded(objs[j])
                 /\ objs[j].uid = uid
                 /\ \E ownerRef \in Range(objs[j].ownerReferences) : ownerRef.UID = owner}
    IN  CHOOSE j \in js : \A m \in js : j <= m

\* The Deployment D without owner references followed by the ReplicaSet R
\* owned by D.
DeploymentThenReplicaSet ==
    /\ Len(objs) = 2
    /\ objs[1].kind = "Deployment" /\ objs[1].uid = "u1" /\ objs[1].ownerReferences = <<>>
    /\ objs[2].kind = "ReplicaSet" /\ objs[2].uid = "u2"
    /\ objs[2].ownerReferences = <<RefD("u1")>>

ExampleHolds ==
    DeploymentThenReplicaSet
    => /\ Cardinality(Keys(Nodes)) = 2
       /\ EdgeSet(Relationships) = {<<"u1", "Deployment", "ReplicaSet", "u2", "ReplicaSet">>}
       /\ Cardinality(Positions(Relationships)) = 1

\* C7 as claimed: every owner reference O of every ingested object C gives
\* exactly one edge from O to C, labelled with C's kind.
C7_EdgeLabelledWithOwnKind ==
    pc = "done"
    => \A j \in 1..Len(objs) : \A ownerRef \in Range(objs[j].ownerReferences) :
           ~Excluded(objs[j])
           => /\ Cardinality(PairPositions(Relationships, ownerRef.UID, objs[j].uid)) = 1
              /\ \A pos \in PairPositions(Relationships, ownerRef.UID, objs[j].uid) :
                     EdgeAt(Relationships, pos).Type = objs[j].kind

\* C7: after a batch, every owner reference O of every ingested object C
\* that is not an excluded Namespace gives exactly one edge from O's
\* identifier to C's identifier, labelled with the kind of the first ingested
\* object that has C's identifier and an owner reference to O's identifier
\* (C's own kind when no earlier object shares C's identifier); a Deployment
\* D and a ReplicaSet R owned by D give two nodes and the one edge D -> R
\* labelled "ReplicaSet".
C7_OwnershipEdges ==
    pc = "done"
    => /\ \A j \in 1..Len(objs) : \A ownerRef \in Range(objs[j].ownerReferences) :
              ~Excluded(objs[j])
              => /\ Cardinality(PairPositions(Relationships, ownerRef.UID, objs[j].uid)) = 1
                 /\ \A pos \in PairPositions(Relationships, ownerRef.UID, objs[j].uid) :
                        /\ EdgeAt(Relationships, pos).Type
                             = objs[FirstWith(ownerRef.UID, objs[j].uid)].kind
                        /\ (FirstWith(ownerRef.UID, objs[j].uid) = j
                            => EdgeAt(Relationships, pos).Type = objs[j].kind)
       /\ ExampleHolds

\* Two objects of different kinds share an identifier and an owner; the one
\* edge from the owner carries the kind of the first.
C7_Witness ==
    /\ pc = "done"
    /\ Len(objs) = 2
    /\ ~Excluded(objs[1]) /\ ~Excluded(objs[2])
    /\ objs[1].uid = objs[2].uid
    /\ objs[1].kind # objs[2].kind
    /\ \E r1 \in Range(objs[1].ownerReferences), r2 \in Range(objs[2].ownerReferences) :
           /\ r1.UID = r2.UID
           /\ \E pos \in PairPositions(Relationships, r1.UID, objs[1].uid) :
                  EdgeAt(Relationships, pos).Type = objs[1].kind

-----------------------------------------------------------------------------
(* C8 *)

\* C8: ingesting an object whose API version selects no extractor returns no
\* error and adds no entry to the collected errors, and the object still gets
\* its generic node and its ownership edges.
C8_UnknownVersionNoError ==
    [][(IngestStep /\ objs[i].apiVersion \notin ExtractorVersions)
         => /\ errs' = errs
            /\ GenericRegistered(Nodes', Relationships', objs[i])]_vars

\* An object of an API version without extractor, whose content no extractor
\* could convert, has been ingested: no error, its node and edge are there.
C8_Witness ==
    /\ pc = "processed"
    /\ objs[i].apiVersion \notin ExtractorVersions
    /\ ~objs[i].convertible
    /\ objs[i].ownerReferences # <<>>
    /\ errs = <<>>
    /\ KeyOf(objs[i]) \in Keys(Nodes)
    /\ Positions(Relationships) # {}

-----------------------------------------------------------------------------
(* C9 *)

\* The last render call reported an error to its caller.
ErrorReported == out.op = "Write" /\ out.err # Nil

\* C9: a render request whose format is none of the registered template names
\* is reported as an error by the render call.
C9_UnsupportedFormatIsError ==
    (out.op \in {"Write", "String"} /\ out.format \notin Templates) => ErrorReported

-----------------------------------------------------------------------------
(* C10 *)

\* The order of events after len of them: Unstructured and processed of the
\* first object, then of the second, and so on.
ExpectedEvents(len) ==
    [k \in 1..len |-> [ev  |-> IF k % 2 = 1 THEN "Unstructured" ELSE "processed",
                       obj |-> (k + 1) \div 2]]

\* C10: during NewGraph over N objects the callback is invoked once per
\* object, in input order, after that object's ingestion and before the next
\* object's, whether or not the object failed; N times when NewGraph returns.
C10_ProgressCallback ==
    /\ pc = "loop" => events = ExpectedEvents(2 * (i - 1))
    /\ pc = "processed" => events = ExpectedEvents(2 * i - 1)
    /\ pc = "done" =>
           /\ events = ExpectedEvents(2 * Len(objs))
           /\ Cardinality({k \in 1..Len(events) : events[k].ev = "processed"}) = Len(objs)

\* NewGraph returned after two objects, the first of which failed, and the
\* callback ran for both.
C10_Witness ==
    /\ pc = "done"
    /\ Len(objs) = 2
    /\ Failing = {1}
    /\ Len(events) = 4
    /\ events[2] = [ev |-> "processed", obj |-> 1]
    /\ events[4] = [ev |-> "processed", obj |-> 2]

-----------------------------------------------------------------------------
(* Labels.String and Attributes.String *)

MaxEntries == 2

\* []byte(s): the bytes of the strings that occur as keys and values.
Bytes(s) ==
    CASE s = "a"     -> <<97>>
      [] s = "A"     -> <<65>>
      [] s = "b"     -> <<98>>
      [] s = "a.b"   -> <<97, 46, 98>>
      [] s = "a-b"   -> <<97, 45, 98>>
      [] s = "a./b"  -> <<97, 46, 47, 98>>
      [] s = "b1"    -> <<98, 49>>
      [] s = "1"     -> <<49>>
      [] s = "2"     -> <<50>>
      [] s = "x"     -> <<120>>
      [] s = "color" -> <<99, 111, 108, 111, 114>>
      [] s = "label" -> <<108, 97, 98, 101, 108>>
      [] s = "red"   -> <<114, 101, 100>>
      [] s = "blue"  -> <<98, 108, 117, 101>>

\* strings.ToLower on ASCII.
ToLower(bs) == [k \in 1..Len(bs) |-> IF bs[k] \in 65..90 THEN bs[k] + 32 ELSE bs[k]]

\* The class [a-z0-9].
InClass(c) == c \in 97..122 \/ c \in 48..57

RECURSIVE ReplaceAllString(_, _)
\* regexp `[^a-z0-9]+` ReplaceAllString(bs[k..], "_"): every run of bytes
\* outside the class becomes one "_".
ReplaceAllString(bs, k) ==
    IF k > Len(bs) THEN <<>>
    ELSE IF InClass(bs[k]) THEN <<bs[k]>> \o ReplaceAllString(bs, k + 1)
    ELSE IF k > 1 /\ ~InClass(bs[k - 1]) THEN ReplaceAllString(bs, k + 1)
    ELSE <<95>> \o ReplaceAllString(bs, k + 1)

\* Line 84: the property name of a label key.
Property(key) == ReplaceAllString(ToLower(Bytes(key)), 1)

\* Line 85: node.Label_<property> = "<value>"
LabelClause(key, value) ==
    <<110, 111, 100, 101, 46, 76, 97, 98, 101, 108, 95>> \o Property(key)
        \o <<32, 61, 32, 34>> \o Bytes(value) \o <<34>>

\* Line 107: <key>="<value>"
AttrClause(key, value) == Bytes(key) \o <<61, 34>> \o Bytes(value) \o <<34>>

\* s < t on Go strings: bytewise lexicographic order.
StrLess(s, t) ==
    \E k \in 1..(Len(s) + 1) :
        /\ k <= Len(t)
        /\ \A m \in 1..(k - 1) : s[m] = t[m]
        /\ (k = Len(s) + 1 \/ s[k] < t[k])

RECURSIVE InsertSorted(_, _)
InsertSorted(sorted, s) ==
    IF sorted = <<>> THEN <<s>>
    ELSE IF StrLess(s, Head(sorted)) THEN <<s>> \o sorted
    ELSE <<Head(sorted)>> \o InsertSorted(Tail(sorted), s)

RECURSIVE SortFrom(_, _, _)
SortFrom(sorted, seq, k) ==
    IF k > Len(seq) THEN sorted ELSE SortFrom(InsertSorted(sorted, seq[k]), seq, k + 1)

\* SortStrings as it would be if the selector were joined as collected.
SortStrings_Omitted(seq) == seq

\* sort.StringSlice(selector).Sort()
SortStrings(seq) == SortFrom(<<>>, seq, 1)

RECURSIVE Join(_, _)
\* strings.Join
Join(seq, sep) ==
    IF seq = <<>> THEN <<>>
    ELSE IF Len(seq) = 1 THEN seq[1]
    ELSE seq[1] \o sep \o Join(Tail(seq), sep)

\* The orders in which a range over a Go map may visit its keys.
Orders(m) ==
    {order \in [1..Cardinality(DOMAIN m) -> DOMAIN m] :
        \A k1, k2 \in DOMAIN order : order[k1] = order[k2] => k1 = k2}

\* Labels.String, the map visited in the given order.
LabelsString(labels, order) ==
    Join(SortStrings([k \in 1..Len(order) |-> LabelClause(order[k], labels[order[k]])]),
         <<44, 32>>)

\* Attributes.String, the map visited in the given order.
AttributesString(attr, order) ==
    Join(SortStrings([k \in 1..Len(order) |-> AttrClause(order[k], attr[order[k]])]),
         <<32>>)

\* The maps with at most MaxEntries entries over the given keys and values.
MapsOver(keys, values) ==
    UNION {[S -> values] : S \in {T \in SUBSET keys : Cardinality(T) <= MaxEntries}}

LabelSets == MapsOver({"a", "A", "a.b", "a-b", "a./b", "b1"}, {"1", "x"})

AttrSets == MapsOver({"color", "label"}, {"red", "blue"})

\* A graph with one node carrying labels and one edge carrying attributes,
\* ready to be rendered.
InitRender ==
    /\ objs = <<>>
    /\ pc = "render"
    /\ i = 1
    /\ \E labels \in LabelSets :
           Nodes = Put(EmptyMap, Hostname, Put(EmptyMap, "ns1", Put(EmptyMap, "u1",
                       [APIVersion |-> AppsV1, Kind |-> "Deployment", Labels |-> labels,
                        Name |-> NameOf("u1"), Namespace |-> "ns1", UID |-> "u1"])))
    /\ \E attr \in AttrSets :
           Relationships = Put(EmptyMap, "u1",
               <<[From |-> [UID |-> "u1", Kind |-> "Deployment"], Type |-> "ReplicaSet",
                  To |-> [UID |-> "u2", Kind |-> "ReplicaSet"], Attr |-> attr]>>)
    /\ errs = <<>>
    /\ events = <<>>
    /\ out = NoOut
    /\ last = NoCall
    /\ calls = 0

\* node.Labels.String() of a stored node, as a template calls it
LabelsStringCall(key, order) ==
    /\ pc = "render"
    /\ out' = [op |-> "Labels.String", key |-> key, order |-> order,
               text |-> LabelsString(NodeAt(Nodes, key).Labels, order)]
    /\ UNCHANGED <<objs, pc, i, Nodes, Relationships, errs, events, last, calls>>

\* r.Attr.String() of a stored edge, as a template calls it
AttributesStringCall(pos, order) ==
    /\ pc = "render"
    /\ out' = [op |-> "Attributes.String", pos |-> pos, order |-> order,
               text |-> AttributesString(EdgeAt(Relationships, pos).Attr, order)]
    /\ UNCHANGED <<objs, pc, i, Nodes, Relationships, errs, events, last, calls>>

NextRender ==
    \/ \E key \in Keys(Nodes) : \E order \in Orders(NodeAt(Nodes, key).Labels) :
           LabelsStringCall(key, order)
    \/ \E pos \in Positions(Relationships) :
           \E order \in Orders(EdgeAt(Relationships, pos).Attr) :
               AttributesStringCall(pos, order)

SpecRender == InitRender /\ [][NextRender]_vars

-----------------------------------------------------------------------------
(* C11 *)

\* The clause lists of a label set and of an attribute set, one per order.
LabelSelectors(labels) ==
    {[k \in 1..Len(order) |-> LabelClause(order[k], labels[order[k]])] :
        order \in Orders(labels)}

AttrSelectors(attr) ==
    {[k \in 1..Len(order) |-> AttrClause(order[k], attr[order[k]])] : order \in Orders(attr)}

\* text is the join, by sep, of one of the lists sels that has n clauses and
\* is in lexicographic order.
SortedClauseList(text, sels, n, sep) ==
    \E sel \in sels :
        /\ Len(sel) = n
        /\ \A k \in 1..(Len(sel) - 1) : ~StrLess(sel[k + 1], sel[k])
        /\ text = Join(sel, sep)

\* C11: for every label set and every attribute set the rendered clause list
\* is the same for every iteration order of the map, holds one clause per
\* entry, and its clauses are in lexicographic order of their rendered
\* strings, labels joined by ", " and attributes by a space.
C11_DeterministicRendering ==
    /\ out.op = "Labels.String" =>
           LET labels == NodeAt(Nodes, out.key).Labels
           IN  /\ SortedClauseList(out.text, LabelSelectors(labels),
                                   Cardinality(DOMAIN labels), <<44, 32>>)
               /\ \A order \in Orders(labels) : LabelsString(labels, order) = out.text
    /\ out.op = "Attributes.String" =>
           LET attr == EdgeAt(Relationships, out.pos).Attr
           IN  /\ SortedClauseList(out.text, AttrSelectors(attr),
                                   Cardinality(DOMAIN attr), <<32>>)
               /\ \A order \in Orders(attr) : AttributesString(attr, order) = out.text

\* Two labels were visited in the order opposite to the order of their
\* clauses, and rendered.
C11_Witness ==
    /\ out.op = "Labels.String"
    /\ Len(out.order) = 2
    /\ LET labels == NodeAt(Nodes, out.key).Labels
       IN  StrLess(LabelClause(out.order[2], labels[out.order[2]]),
                   LabelClause(out.order[1], labels[out.order[1]]))

-----------------------------------------------------------------------------
(* C12 *)

\* The identity keys that carry the identifier uid.
KeysOf(nodes, uid) == {key \in Keys(nodes) : key[3] = uid}

\* objs[i], just ingested, is the actual owner P of an earlier child of the
\* batch; P is another resource than the child and does not name itself as
\* its owner.
OwnerIngestedAfterChild ==
    /\ pc = "processed"
    /\ ~Excluded(objs[i])
    /\ \A ownerRef \in Range(objs[i].ownerReferences) : ownerRef.UID # objs[i].uid
    /\ \E j \in 1..(i - 1) : ~Excluded(objs[j]) /\ ChildOf(objs[j], objs[i])

\* C12: when the actual object P is ingested after a child that names it as
\* owner, the node registry holds exactly one node with P's identifier, it
\* carries P's own kind, name, namespace and labels, and the edges from P's
\* identifier refer to it.
C12_PlaceholderCoincides ==
    OwnerIngestedAfterChild
    => /\ Cardinality(KeysOf(Nodes, objs[i].uid)) = 1
       /\ \A key \in KeysOf(Nodes, objs[i].uid) :
              /\ NodeAt(Nodes, key).Kind = objs[i].kind
              /\ NodeAt(Nodes, key).Name = objs[i].name
              /\ NodeAt(Nodes, key).Namespace = objs[i].namespace
              /\ NodeAt(Nodes, key).Labels = objs[i].labels

-----------------------------------------------------------------------------
(* C13 *)

\* The insertions that the ingestion of obj makes into the node registry, in
\* order: obj under its key, then each owner that is not excluded.
Insertions(obj) ==
    <<[key |-> KeyOf(obj), kind |-> obj.kind]>>
    \o [k \in 1..Len(obj.ownerReferences) |->
          [key  |-> IF RefExcluded(obj.ownerReferences[k])
                    THEN <<>> ELSE OwnerKey(obj, obj.ownerReferences[k]),
           kind |-> obj.ownerReferences[k].Kind]]

\* C13 as claimed: an insertion under a key that holds a node of another kind
\* leaves the kind of the first insertion stored.
C13_FirstWriterPersists ==
    (/\ pc = "processed" /\ i = 2
     /\ ~Excluded(objs[1]) /\ ~Excluded(objs[2])
     /\ objs[1].ownerReferences = <<>> /\ objs[2].ownerReferences = <<>>
     /\ KeyOf(objs[1]) = KeyOf(objs[2])
     /\ objs[1].kind # objs[2].kind)
    => NodeAt(Nodes, KeyOf(objs[2])).Kind = objs[1].kind

\* C13: when an insertion resolves to an identity key that already holds a
\* node, of the same or of another kind, no conflict is raised and the kind
\* stored afterwards is the kind supplied by the latest insertion under that
\* key.
C13_LastWriterPersists ==
    [][(IngestStep /\ ~Excluded(objs[i]))
         => LET ins == Insertions(objs[i])
            IN  \A k \in 1..Len(ins) :
                    (ins[k].key # <<>> /\ \A m \in (k + 1)..Len(ins) : ins[m].key # ins[k].key)
                    => /\ ins[k].key \in Keys(Nodes')
                       /\ NodeAt(Nodes', ins[k].key).Kind = ins[k].kind]_vars

\* Two objects of different kinds were ingested under one key, and the
\* stored kind is the kind of the second.
C13_Witness ==
    /\ pc = "processed" /\ i = 2
    /\ ~Excluded(objs[1]) /\ ~Excluded(objs[2])
    /\ objs[1].ownerReferences = <<>> /\ objs[2].ownerReferences = <<>>
    /\ KeyOf(objs[1]) = KeyOf(objs[2])
    /\ objs[1].kind # objs[2].kind
    /\ NodeAt(Nodes, KeyOf(objs[2])).Kind = objs[2].kind

-----------------------------------------------------------------------------
(* C14 *)

\* C14: if the node stored under an identity key has a non-empty label set,
\* then after any later insertion under that key, whatever labels the
\* candidate supplies, the stored node's labels are exactly the previously
\* stored set; two non-empty label sets are never merged.
C14_ExistingLabelsWin ==
    [][\A key \in Keys(Nodes) :
          NodeAt(Nodes, key).Labels # NoLabels
          => /\ key \in Keys(Nodes')
             /\ NodeAt(Nodes', key).Labels = NodeAt(Nodes, key).Labels]_vars

\* An object with a non-empty label set of its own was ingested under a key
\* whose node had a different non-empty label set, which is still the one
\* stored.
C14_Witness ==
    /\ pc = "processed" /\ i = 2
    /\ ~Excluded(objs[1]) /\ ~Excluded(objs[2])
    /\ KeyOf(objs[1]) = KeyOf(objs[2])
    /\ objs[1].labels # NoLabels
    /\ objs[2].labels # NoLabels
    /\ objs[2].labels # objs[1].labels
    /\ NodeAt(Nodes, KeyOf(objs[2])).Labels = objs[1].labels

-----------------------------------------------------------------------------
(* C15 *)

\* Lines 212-228: how many levels of Node() calls the registration of obj
\* nests below the first call.
RECURSIVE Depth(_, _)
Depth(gvk, obj) ==
    IF IsNamespace(gvk) \/ obj.ownerReferences = <<>>
    THEN 0
    ELSE LET below == {Depth(FromAPIVersionAndKind(ownerRef.APIVersion, ownerRef.Kind),
                             ObjectMeta(ownerRef.UID, ownerRef.Name, obj.namespace)) :
                           ownerRef \in Range(obj.ownerReferences)}
         IN  1 + CHOOSE d \in below : \A e \in below : e <= d

\* objs[j] and objs[k] name each other as owner.
OwnerCycle(j, k) ==
    /\ objs[j].uid # objs[k].uid
    /\ \E ownerRef \in Range(objs[j].ownerReferences) : ownerRef.UID = objs[k].uid
    /\ \E ownerRef \in Range(objs[k].ownerReferences) : ownerRef.UID = objs[j].uid

\* C15: for every object, including one whose owner references name itself
\* or form a cycle with other objects of the batch, Node() returns with the
\* object registered and without an error of its own, and the walk over the
\* owner references nests at most one level of Node() calls, because the
\* ancestor built from an owner reference carries no owner references.
C15_RegistrationTerminates ==
    /\ \A k \in 1..Len(objs) : Depth(GroupVersionKind(objs[k]), objs[k]) <= 1
    /\ pc = "processed"
       => /\ GenericRegistered(Nodes, Relationships, objs[i])
          /\ Len(errs) = Cardinality({j \in Failing : j <= i})

\* Two objects that name each other as owner, the second also naming itself,
\* have both been ingested.
C15_Witness ==
    /\ pc = "processed" /\ i = 2
    /\ ~Excluded(objs[1]) /\ ~Excluded(objs[2])
    /\ OwnerCycle(1, 2)
    /\ \E ownerRef \in Range(objs[2].ownerReferences) : ownerRef.UID = objs[2].uid
    /\ Depth(GroupVersionKind(objs[2]), objs[2]) = 1

-----------------------------------------------------------------------------
(* C16 *)

\* The ownership edges as (from-identifier, to-identifier) pairs.
OwnershipPairs(rels) == {<<e[1], e[4]>> : e \in EdgeSet(rels)}

\* The identifiers reachable from uid over one or more ownership edges.
ReachableFrom(rels, uid) ==
    LET pairs == OwnershipPairs(rels)
        one   == {p[2] : p \in {q \in pairs : q[1] = uid}}
        two   == one \cup {p[2] : p \in {q \in pairs : q[1] \in one}}
    IN  two \cup {p[2] : p \in {q \in pairs : q[1] \in two}}

\* C16 as claimed: after any batch is ingested the ownership edges form a
\* forest: no identifier has more than one incoming ownership edge and no
\* identifier reaches itself over ownership edges.
C16_OwnershipForest ==
    pc = "done"
    => /\ \A p \in OwnershipPairs(Relationships), q \in OwnershipPairs(Relationships) :
              p[2] = q[2] => p[1] = q[1]
       /\ \A uid \in UIDs : uid \notin ReachableFrom(Relationships, uid)

\* The owner references that the objects of the batch declare, as
\* (owner identifier, object identifier) pairs; an excluded object declares
\* none.
DeclaredPairs ==
    UNION {{<<ownerRef.UID, objs[k].uid>> : ownerRef \in Range(objs[k].ownerReferences)} :
             k \in {j \in 1..Len(objs) : ~Excluded(objs[j])}}

\* pairs has no identifier with two sources and no two identifiers that
\* point at each other or at themselves.
Forest(pairs) ==
    /\ \A p \in pairs, q \in pairs : p[2] = q[2] => p[1] = q[1]
    /\ \A p \in pairs, q \in pairs : ~(p[1] = q[2] /\ p[2] = q[1])

\* C16: after any batch is ingested in any order, the ownership edges are
\* exactly the owner references that the ingested objects declare, each
\* pointing from the owner toward the owned object; so they form a forest
\* whenever the declared owner references do.
C16_OwnershipEdgesAsDeclared ==
    pc = "done"
    => /\ OwnershipPairs(Relationships) = DeclaredPairs
       /\ Forest(DeclaredPairs) => Forest(OwnershipPairs(Relationships))

\* A batch of an owner and an object that names it has been ingested in
\* either order and left the one edge from the owner to the object.
C16_Witness ==
    /\ pc = "done" /\ Len(objs) = 2
    /\ ChildOf(objs[1], objs[2])
    /\ Len(objs[1].ownerReferences) = 1
    /\ objs[2].ownerReferences = <<>>
    /\ OwnershipPairs(Relationships) = {<<objs[2].uid, objs[1].uid>>}
    /\ Forest(OwnershipPairs(Relationships))

-----------------------------------------------------------------------------
(* ToUID *)

MaxParams == 2

\* The parameters: strings and small integers.
StringParam(s) == [type |-> "string", s |-> s, n |-> 0]

IntParam(n) == [type |-> "int", s |-> "", n |-> n]

ParamValues ==
    {StringParam("a"), StringParam("b"), StringParam("a-b"), StringParam("1"),
     IntParam(1), IntParam(2)}

ParamLists == UNION {[1..n -> ParamValues] : n \in 0..MaxParams}

\* fmt.Sprint(param): a string as it is, an integer in decimal.
Sprint(param) == IF param.type = "string" THEN Bytes(param.s) ELSE <<48 + param.n>>

\* Lines 116-119: make([]string, len(params)) gives len(params) empty
\* strings, and the loop appends one string per parameter after them.
Input(params) ==
    [k \in 1..Len(params) |-> <<>>] \o [k \in 1..Len(params) |-> Sprint(params[k])]

\* md5.Sum(bytes) printed with %x: 32 hexadecimal digits, digit k of the
\* digest of bytes; the digest itself is not computed.
Md5Hex(bytes) == [k \in 1..32 |-> [digit |-> k, of |-> bytes]]

\* The "-" between the groups of the identifier.
Hyphen == [digit |-> 0, of |-> <<45>>]

\* Lines 124-132: the digits in groups of 8, 4, 4, 4 and 12, joined by "-".
Grouped(md5sum) ==
    Join(<<SubSeq(md5sum, 1, 8), SubSeq(md5sum, 9, 12), SubSeq(md5sum, 13, 16),
           SubSeq(md5sum, 17, 20), SubSeq(md5sum, 21, Len(md5sum))>>, <<Hyphen>>)

\* Line 121: the bytes that are hashed.
HashedBytes(params) == Join(Input(params), <<45>>)

\* Lines 115-133
ToUID(params) == Grouped(Md5Hex(HashedBytes(params)))

InitUID ==
    /\ objs = <<>>
    /\ pc = "uid"
    /\ i = 1
    /\ Nodes = EmptyMap
    /\ Relationships = EmptyMap
    /\ errs = <<>>
    /\ events = <<>>
    /\ out = NoOut
    /\ last = NoCall
    /\ calls = 0

\* ToUID(params...)
ToUIDCall(params) ==
    /\ pc = "uid"
    /\ calls < MaxCalls
    /\ calls' = calls + 1
    /\ last' = [op |-> "ToUID", params |-> params,
                bytes |-> HashedBytes(params), ret |-> ToUID(params)]
    /\ UNCHANGED <<objs, pc, i, Nodes, Relationships, errs, events, out>>

NextUID == \E params \in ParamLists : ToUIDCall(params)

SpecUID == InitUID /\ [][NextUID]_vars

-----------------------------------------------------------------------------
(* C17 *)

\* The stringified parameters joined by "-", one component per parameter.
JoinedParams(params) == Join([k \in 1..Len(params) |-> Sprint(params[k])], <<45>>)

\* C17 as claimed: the bytes that ToUID hashes are exactly the stringified
\* parameters joined by "-", nothing added, and the result is the hash of
\* those bytes as 32 hexadecimal digits in groups of 8-4-4-4-12.
C17_HashesJoinedParams ==
    last.op = "ToUID"
    => /\ last.bytes = JoinedParams(last.params)
       /\ last.ret = Grouped(Md5Hex(JoinedParams(last.params)))

-----------------------------------------------------------------------------
(* C18 *)

\* C18 as claimed: the registry never holds an edge from X to Y together
\* with an edge from Y to X.
C18_UnorderedPairUnique ==
    \A p1, p2 \in Positions(Relationships) :
        (/\ EdgeAt(Relationships, p1).From.UID = EdgeAt(Relationships, p2).To.UID
         /\ EdgeAt(Relationships, p1).To.UID = EdgeAt(Relationships, p2).From.UID)
        => p1 = p2

\* C18: relationship identity is the ordered pair of endpoint identifiers:
\* once an edge between X and Y has been registered as Relationship(X, L1, Y),
\* a later Relationship(Y, L2, X) with no edge from Y to X registered adds a
\* second edge, from Y to X with label L2, and leaves the edge from X to Y
\* as it was.
C18_OrderedPairIdentity ==
    [][(/\ last'.op = "Relationship"
        /\ calls' = calls + 1
        /\ last'.from.UID # last'.to.UID
        /\ PairPositions(Relationships, last'.to.UID, last'.from.UID) # {}
        /\ PairPositions(Relationships, last'.from.UID, last'.to.UID) = {})
       => /\ last'.created
          /\ last'.ret.From.UID = last'.from.UID
          /\ last'.ret.To.UID = last'.to.UID
          /\ last'.ret.Type = last'.label
          /\ Cardinality(PairPositions(Relationships', last'.from.UID, last'.to.UID)) = 1
          /\ \A pos \in PairPositions(Relationships, last'.to.UID, last'.from.UID) :
                 /\ pos \in Positions(Relationships')
                 /\ EdgeAt(Relationships', pos) = EdgeAt(Relationships, pos)]_vars

\* Relationship(Y, L2, X) has just added an edge although the edge from X to
\* Y was registered, with another label.
C18_Witness ==
    /\ last.op = "Relationship"
    /\ last.created
    /\ last.from.UID # last.to.UID
    /\ \E pos \in PairPositions(Relationships, last.to.UID, last.from.UID) :
           EdgeAt(Relationships, pos).Type # last.label
    /\ Cardinality(PairPositions(Relationships, last.from.UID, last.to.UID)) = 1

-----------------------------------------------------------------------------
(* C19 *)

\* The identifiers of the stored nodes.
StoredUIDs(nodes) == {key[3] : key \in Keys(nodes)}

\* C19: in every state reachable by generic ingestion, every relationship
\* stored in the edge list of key X has From identifier X; its To identifier
\* is the identifier of a stored node; and its From identifier is the
\* identifier of a stored node unless the From kind is "Namespace".
C19_ReferentialIntegrity ==
    \A pos \in Positions(Relationships) :
        /\ EdgeAt(Relationships, pos).From.UID = pos[1]
        /\ EdgeAt(Relationships, pos).To.UID \in StoredUIDs(Nodes)
        /\ EdgeAt(Relationships, pos).From.Kind # "Namespace"
           => EdgeAt(Relationships, pos).From.UID \in StoredUIDs(Nodes)

\* An edge whose owner is a core Namespace, which is not stored, stands next
\* to an edge whose owner is stored.
C19_Witness ==
    /\ pc = "done"
    /\ \E pos \in Positions(Relationships) :
           /\ EdgeAt(Relationships, pos).From.Kind = "Namespace"
           /\ EdgeAt(Relationships, pos).From.UID \notin StoredUIDs(Nodes)
    /\ \E pos \in Positions(Relationships) :
           /\ EdgeAt(Relationships, pos).From.Kind # "Namespace"
           /\ EdgeAt(Relationships, pos).From.UID \in StoredUIDs(Nodes)

-----------------------------------------------------------------------------
(* The program under either use: a batch given to NewGraph, then rendered, or
   the registration primitives called directly *)

InitFrame == Init \/ InitAPI

NextFrame == Next \/ NextAPI

SpecFrame == InitFrame /\ [][NextFrame]_vars

-----------------------------------------------------------------------------
(* C20 *)

\* from's list of edges, empty when from has none.
ListOf(rels, uid) == IF uid \in DOMAIN rels THEN rels[uid] ELSE <<>>

\* A Relationship call leaves the nodes and the lists of the other
\* identifiers alone; for a registered pair it changes nothing, otherwise it
\* appends exactly one edge at the end of from's list.
RelationshipFrame ==
    (last'.op = "Relationship" /\ calls' = calls + 1)
    => /\ Nodes' = Nodes
       /\ DOMAIN Relationships' = DOMAIN Relationships \cup {last'.from.UID}
       /\ \A uid \in DOMAIN Relationships \ {last'.from.UID} :
              Relationships'[uid] = Relationships[uid]
       /\ IF PairPositions(Relationships, last'.from.UID, last'.to.UID) # {}
          THEN Relationships' = Relationships
          ELSE /\ Len(Relationships'[last'.from.UID])
                    = Len(ListOf(Relationships, last'.from.UID)) + 1
               /\ SubSeq(Relationships'[last'.from.UID], 1,
                         Len(ListOf(Relationships, last'.from.UID)))
                    = ListOf(Relationships, last'.from.UID)
               /\ Relationships'[last'.from.UID][Len(Relationships'[last'.from.UID])]
                    = [From |-> [UID |-> last'.from.UID, Kind |-> last'.from.Kind],
                       Type |-> last'.label,
                       To   |-> [UID |-> last'.to.UID, Kind |-> last'.to.Kind],
                       Attr |-> EmptyMap]

\* An ingestion, by the loop of NewGraph or by a direct Node() call, removes
\* no identity key and no edge.
IngestionRemovesNothing ==
    (IngestStep \/ (last'.op = "Node" /\ calls' = calls + 1))
    => /\ Keys(Nodes) \subseteq Keys(Nodes')
       /\ \A pos \in Positions(Relationships) :
              /\ pos \in Positions(Relationships')
              /\ EdgeAt(Relationships', pos) = EdgeAt(Relationships, pos)

\* String and Write leave both registries as they are.
RenderingFrame ==
    (out' # out) => (Nodes' = Nodes /\ Relationships' = Relationships)

\* C20: Relationship(from, label, to) never changes the node registry nor
\* the edge list of an identifier other than from's; when the (from, to) pair
\* exists it changes nothing at all, otherwise it appends exactly one edge at
\* the end of from's list.  No ingestion removes a node identity key or an
\* edge, and rendering (String/Write) changes neither registry.
C20_RegistryFrame ==
    [][RelationshipFrame /\ IngestionRemovesNothing /\ RenderingFrame]_vars

\* A Relationship call has appended a second edge to from's list, with
\* nodes stored and another identifier holding a list of its own.
C20_Witness ==
    /\ last.op = "Relationship"
    /\ last.created
    /\ last.at = 2
    /\ Len(Relationships[last.from.UID]) = 2
    /\ Cardinality(DOMAIN Relationships) = 2
    /\ Keys(Nodes) # {}

====
